---- MODULE Spec2Model ----
(***************************************************************************)
(* ProcessWrapper (src/src/process-wrapper.ts): one supervising host       *)
(* process, one ProcessWrapper instance, and the child processes that the  *)
(* instance spawns.  Every callback the class registers (child 'exit' and  *)
(* 'error' listeners, host signal / uncaughtException / exit listeners,    *)
(* the timeout timer, the force-kill timer, the forced-exit timers, the    *)
(* tree-kill callback) is one action; the operating system's side of a     *)
(* child (it exits, it dies of a signal) is one action each.               *)
(***************************************************************************)
EXTENDS Integers, FiniteSets, Sequences, TLC

\* ---------------------------------------------------------------- bounds
MaxSpawns == 2        \* children the instance spawns over its life
MaxCode == 2          \* exit codes range over 0..MaxCode
MaxSigTimers == 1     \* 5 s timers of signal handlers pending at one time
MaxExcTimers == 1     \* 1 s timers of the exception handler pending at one time
MaxPathLen == 3       \* characters of a command path drawn from PathChars
MaxArgs == 3          \* arguments of a server entry of a configuration file
MaxPasses == 2        \* times a transformation is applied to one entry
MaxTime == 2          \* Date.now() ranges over 1..MaxTime

Children == 1..MaxSpawns
NoChild == 0                      \* this.child === null
NullCode == 0 - 1                 \* the 'exit' event's code when a signal ended the child
ExitCodes == 0..MaxCode

\* signal names; "SIGBOGUS" stands for a name child.kill() rejects by throwing
GracefulSignals == {"SIGTERM", "SIGINT"}
TerminateArgs == {"SIGTERM", "SIGINT", "SIGBOGUS"}
NoSignal == "none"

\* environments: objects over a few keys; Absent marks a key the object lacks
EnvKeys == {"HOME", "PATH"}
EnvValues == {"u", "v"}
Absent == "absent"
Environments == [EnvKeys -> EnvValues \cup {Absent}]
EmptyEnv == [k \in EnvKeys |-> Absent]

\* strings are sequences of characters
PathChars == {"/", "\\", "n", "o"}
UsrBinNode == <<"/", "u", "s", "r", "/", "b", "i", "n", "/", "n", "o", "d", "e">>
Commands ==
    UNION {[1..n -> PathChars] : n \in 1..MaxPathLen} \cup {UsrBinNode}

\* options.label: left out, the empty string, or a name
NoLabel == [defined |-> FALSE, text |-> <<>>]
LabelOptions ==
    {NoLabel} \cup {[defined |-> TRUE, text |-> t] : t \in {<<>>, <<"m", "y">>}}

\* server entries of a configuration file: the commands and arguments the
\* migration patterns tell apart, and some they do not
ServerCommands ==
    {"cmd", "cmd.exe", "npx", "node", "node.exe", "python", "python3",
     "reliable-mcp", "uvx"}
ArgTokens ==
    {"/c", "npx", "-y", "reliable-mcp", "server-mcp", "@modelcontextprotocol/server",
     "app.js"}
ArgLists == UNION {[1..n -> ArgTokens] : n \in 0..MaxArgs}
Servers ==
    {[command |-> c, hasArgs |-> TRUE, args |-> a] : c \in ServerCommands, a \in ArgLists}
    \cup {[command |-> c, hasArgs |-> FALSE, args |-> <<>>] : c \in ServerCommands}
ServerNames == {"memory"}
Transformations == {"transformMCPServer", "transformConfig"}

\* the files of one configuration: the configuration file itself, its
\* .backup.<t>, .before-restore.<t> and .tmp.<t> companions
Times == 1..MaxTime
Config == [kind |-> "config", ts |-> 0]
Backup(t) == [kind |-> "backup", ts |-> t]
Safety(t) == [kind |-> "before-restore", ts |-> t]
Temp(t) == [kind |-> "tmp", ts |-> t]

\* contents of a configuration file, as the one server entry it holds: two
\* entries the migrations rewrite, one they leave alone; Empty is a file cut
\* short by a failed write
CmdNpx == [command |-> "cmd", hasArgs |-> TRUE, args |-> <<"/c", "npx", "server-mcp">>]
PlainNpx == [command |-> "npx", hasArgs |-> TRUE, args |-> <<"server-mcp">>]
Uvx == [command |-> "uvx", hasArgs |-> TRUE, args |-> <<"app.js">>]
FileEntries == {CmdNpx, PlainNpx, Uvx}
Empty == [command |-> "", hasArgs |-> FALSE, args |-> <<>>]

\* the commands of the tools, by the code path they take
ToolCommands == {"migrate", "migrate-json", "migrate-streaming", "restore"}
IdleJob ==
    [cmd |-> "none", pc |-> "done", dryRun |-> FALSE, force |-> FALSE,
     global |-> FALSE, large |-> FALSE, config |-> Empty, changes |-> FALSE, backupTs |-> 0,
     tempTs |-> 0, latest |-> 0]

VARIABLES
    isWindows,        \* os.platform() === 'win32'
    timeoutOpt,       \* options.timeout is set (truthy)
    verbose,          \* this.verbose (options.verbose || false)
    parentEnv,        \* process.env: the environment the host inherited
    optionsEnv,       \* options.env
    command,          \* options.command
    labelOpt,         \* options.label
    label,            \* this.label
    child,            \* this.child: NoChild or the id of the ChildProcess held
    terminated,       \* this.terminated
    cleanupHandlers,  \* this.cleanupHandlers: events whose remover is stored
    listeners,        \* events of the host process this instance listens to
    spawned,          \* number of children spawned so far
    pid,              \* pid[c]: the ChildProcess has a pid (spawn succeeded)
    killed,           \* killed[c]: ChildProcess.killed (a signal was sent through the handle)
    os,               \* os[c]: "none" | "alive" | "dead" | "reaped" | "failed" | "errored"
    kind,             \* kind[c]: "normal" | "stubborn" (ignores graceful signals, never exits)
    exitCode,         \* exitCode[c]: code of the 'exit' event (NullCode: ended by a signal)
    exitSignal,       \* exitSignal[c]: signal of the 'exit' event
    sigPending,       \* sigPending[c]: signal sent to c and not yet acted on
    promise,          \* promise[c]: "none" | "pending" | "resolved" | "rejected" (start()'s promise)
    result,           \* result[c]: value the promise resolved to
    timeoutTimers,    \* children whose start() armed a timeout timer still pending
    forceKillTimers,  \* children whose terminate() armed a 3 s timer still pending
    treeKills,        \* children with a tree-kill (taskkill) in flight
    sigExitTimers,    \* pending 5 s timers of the signal handlers
    excExitTimers,    \* pending 1 s timers of the uncaughtException handler
    host,             \* "running" | "exited" | "killed"
    hostCode,         \* exit status of the host process
    kills,            \* kills[c]: kill sequences initiated for c (history)
    termError,        \* fate of an error raised inside terminate(): "none", "logged", "thrown"
    timeoutDiags,     \* timeout diagnostics logged (history)
    lateTimeouts,     \* children whose timeout timer fired after their exit was observed
    declined,         \* a noted terminate() call returned at its guard for want of a
                      \* child with a pid (history)
    peer,             \* a second ProcessWrapper instance of the host process, started
                      \* at most once: its child, latch, listeners and kill count
    childEnv,         \* the env option passed to the last spawn call
    desc,             \* desc[c]: a descendant process spawned by child c is running
    transformation,   \* the migration function applied: transformMCPServer or transformConfig
    serverName,       \* key of the server entry in mcpServers
    server,           \* the server entry: command, args (hasArgs: args is defined)
    changed,          \* the last application reported a change
    passes,           \* applications of the transformation so far
    fs,               \* the file system: content of every file that exists
    clock,            \* Date.now()
    job,              \* the run of a migrate or restore command: its options, its
                      \* position and its local variables
    fs0               \* the file system as the run found it

instVars == <<child, terminated, cleanupHandlers, listeners>>
termVars == <<terminated, killed, sigPending, forceKillTimers, treeKills, kills,
              termError>>
childVars == <<spawned, pid, os, kind, exitCode, exitSignal, desc, childEnv>>
promVars == <<promise, result>>
timerVars == <<timeoutTimers, sigExitTimers, excExitTimers>>
hostVars == <<host, hostCode>>
histVars == <<timeoutDiags, lateTimeouts, declined>>
optVars == <<isWindows, timeoutOpt, verbose, parentEnv, optionsEnv, command, labelOpt,
             label>>
entryVars == <<transformation, serverName, server, changed, passes>>
fsVars == <<fs, clock, job, fs0>>
selfVars == <<instVars, termVars, childVars, promVars, timerVars, hostVars, histVars,
              optVars, entryVars, fsVars>>
wrapperVars == <<instVars, termVars, childVars, promVars, timerVars, hostVars, histVars,
                 optVars, peer>>

vars == <<isWindows, timeoutOpt, verbose, parentEnv, optionsEnv, command, labelOpt, label, child, terminated, cleanupHandlers, listeners,
          spawned, pid, childEnv, killed, os, kind, exitCode, exitSignal, sigPending,
          promise, result, timeoutTimers, forceKillTimers, treeKills,
          sigExitTimers, excExitTimers, host, hostCode, kills, termError, timeoutDiags,
          lateTimeouts, declined, desc, peer, transformation, serverName, server, changed,
          passes, fs, clock, job, fs0>>

\* ------------------------------------------------------------- helpers

\* setupCleanupHandlers: the signals the instance listens to
HandledSignals == {"SIGINT", "SIGTERM", "SIGHUP"} \cup (IF isWindows THEN {"SIGBREAK"} ELSE {})

\* setupCleanupHandlers: every event a handler is registered for
HandledEvents == HandledSignals \cup {"uncaughtException", "exit"}

\* a plausible slip: the code coerced to a truth value (1 for every non-zero code)
CodeOrZeroTruthy(code) == IF code = NullCode \/ code = 0 THEN 0 ELSE 1

\* resolve(code || 0)
CodeOrZero(code) == IF code = NullCode \/ code = 0 THEN 0 ELSE code

\* The ChildProcess still has its OS handle: spawned, exit not yet observed
HasHandle(c) == os[c] \in {"alive", "dead"}

\* Of two signals sent to one process the unconditional one wins
Merge(old, new) == IF old = "SIGKILL" THEN old ELSE new

\* child.kill(sig) for a signal name the runtime accepts: with a handle the
\* signal is sent and ChildProcess.killed becomes true; without one it
\* returns false and changes nothing.
ChildKill(c, sig) ==
    IF HasHandle(c)
    THEN /\ killed' = [killed EXCEPT ![c] = TRUE]
         /\ sigPending' = [sigPending EXCEPT
                ![c] = IF os[c] = "alive" THEN Merge(@, sig) ELSE @]
    ELSE UNCHANGED <<killed, sigPending>>

\* { ...target, ...source }: every key the source has is copied over the target
Spread(target, source) ==
    [k \in EnvKeys |-> IF source[k] # Absent THEN source[k] ELSE target[k]]

\* a plausible slip: the two spreads in the other order
SpawnEnvReversed(inherited, given) == Spread(Spread(EmptyEnv, given), inherited)

\* env: { ...process.env, ...this.options.env }
SpawnEnv(inherited, given) == Spread(Spread(EmptyEnv, inherited), given)

\* a plausible slip: the message is only written in verbose mode
EmitsWhenVerbose(level) == verbose

\* log(message, level): written when verbose or at error level
Emits(level) == verbose \/ level = "error"

\* path.basename: the separators of the platform's path module
Seps == IF isWindows THEN {"/", "\\"} ELSE {"/"}

\* path.basename: trailing separators are skipped
RECURSIVE StripTrailing(_)
StripTrailing(p) ==
    IF p # <<>> /\ p[Len(p)] \in Seps
    THEN StripTrailing(SubSeq(p, 1, Len(p) - 1))
    ELSE p

\* path.basename: the characters after the last separator
RECURSIVE LastName(_)
LastName(p) ==
    IF p = <<>> \/ p[Len(p)] \in Seps
    THEN <<>>
    ELSE Append(LastName(SubSeq(p, 1, Len(p) - 1)), p[Len(p)])

\* path.basename(path)
Basename(p) == LastName(StripTrailing(p))

\* a plausible slip: ?? in place of ||, which keeps an empty label
LabelOfNullish(opt, cmd) == IF opt.defined THEN opt.text ELSE Basename(cmd)

\* options.label || path.basename(options.command): the empty string is falsy
LabelOf(opt, cmd) ==
    IF opt.defined /\ opt.text # <<>> THEN opt.text ELSE Basename(cmd)

\* the migration and restore tools are not run
NoEntry ==
    /\ transformation = "transformMCPServer"
    /\ serverName = "memory"
    /\ server = [command |-> "npx", hasArgs |-> FALSE, args |-> <<>>]
    /\ changed = FALSE
    /\ passes = 0

\* no command of the tools has been started: no files, no run
ToolsIdle ==
    /\ NoEntry
    /\ fs = [p \in {} |-> Empty]
    /\ clock = 1
    /\ job = [cmd |-> "none"]
    /\ fs0 = fs

\* the constructor with a command found on the PATH and no label
DefaultNames ==
    /\ command = <<"n">>
    /\ labelOpt = NoLabel
    /\ label = LabelOf(labelOpt, command)

\* the instance as constructed, apart from its options
Constructed ==
    /\ child = NoChild
    /\ terminated = FALSE
    /\ cleanupHandlers = {}
    /\ listeners = {}
    /\ spawned = 0
    /\ pid = [c \in Children |-> FALSE]
    /\ killed = [c \in Children |-> FALSE]
    /\ os = [c \in Children |-> "none"]
    /\ kind = [c \in Children |-> "normal"]
    /\ exitCode = [c \in Children |-> NullCode]
    /\ exitSignal = [c \in Children |-> NoSignal]
    /\ sigPending = [c \in Children |-> NoSignal]
    /\ promise = [c \in Children |-> "none"]
    /\ result = [c \in Children |-> 0]
    /\ timeoutTimers = {}
    /\ forceKillTimers = {}
    /\ treeKills = {}
    /\ sigExitTimers = 0
    /\ excExitTimers = 0
    /\ host = "running"
    /\ hostCode = 0
    /\ kills = [c \in Children |-> 0]
    /\ termError = "none"
    /\ timeoutDiags = 0
    /\ lateTimeouts = {}
    /\ declined = FALSE
    /\ desc = [c \in Children |-> FALSE]
    /\ childEnv = EmptyEnv
    /\ peer = [child |-> "none", terminated |-> FALSE, listeners |-> {}, kills |-> 0]

\* an instance constructed with or without a timeout, not verbose (the default)
Init ==
    /\ isWindows \in BOOLEAN
    /\ timeoutOpt \in BOOLEAN
    /\ verbose = FALSE
    /\ parentEnv = EmptyEnv
    /\ optionsEnv = EmptyEnv
    /\ DefaultNames
    /\ Constructed
    /\ ToolsIdle

\* an instance constructed with a timeout, verbose or not
TimedInit ==
    /\ isWindows \in BOOLEAN
    /\ timeoutOpt = TRUE
    /\ verbose \in BOOLEAN
    /\ parentEnv = EmptyEnv
    /\ optionsEnv = EmptyEnv
    /\ DefaultNames
    /\ Constructed
    /\ ToolsIdle

\* an instance constructed with any options.env in a host with any environment
EnvInit ==
    /\ isWindows \in BOOLEAN
    /\ timeoutOpt = FALSE
    /\ verbose = FALSE
    /\ parentEnv \in Environments
    /\ optionsEnv \in Environments
    /\ DefaultNames
    /\ Constructed
    /\ ToolsIdle

\* no instance is in use: the state of the host before any is started
WrapperIdle ==
    /\ isWindows = FALSE
    /\ timeoutOpt = FALSE
    /\ verbose = FALSE
    /\ parentEnv = EmptyEnv
    /\ optionsEnv = EmptyEnv
    /\ DefaultNames
    /\ Constructed

\* any server entry, before a migration function is applied to it
TransformInit ==
    /\ WrapperIdle
    /\ transformation \in Transformations
    /\ serverName \in ServerNames
    /\ server \in Servers
    /\ changed = FALSE
    /\ passes = 0
    /\ fs = [p \in {} |-> Empty]
    /\ clock = 1
    /\ job = IdleJob
    /\ fs0 = fs

\* the files a run may find: the configuration file or none, and backups of
\* earlier runs
FileSystems(now) ==
    UNION {[D -> FileEntries] : D \in SUBSET ({Config} \cup {Backup(t) : t \in 1..now})}

\* a configuration and its backups, before a migrate or restore command runs
FsInit ==
    /\ WrapperIdle
    /\ NoEntry
    /\ clock \in Times
    /\ fs \in FileSystems(clock)
    /\ job = IdleJob
    /\ fs0 = fs

\* an instance constructed with any command path and any label option
LabelInit ==
    /\ isWindows \in BOOLEAN
    /\ timeoutOpt = FALSE
    /\ verbose = FALSE
    /\ parentEnv = EmptyEnv
    /\ optionsEnv = EmptyEnv
    /\ command \in Commands
    /\ labelOpt \in LabelOptions
    /\ label = LabelOf(labelOpt, command)
    /\ Constructed
    /\ ToolsIdle

\* ------------------------------------------------------------ operations

\* a plausible slip: the guard of the promise executor inverted
NewExitPromiseInverted(c) == IF c # NoChild THEN "resolved" ELSE "pending"

\* the executor of the exit promise: resolve(-1) at once when there is no child
\* (never the case right after spawn), otherwise pending until 'exit'
NewExitPromise(c) == IF c = NoChild THEN "resolved" ELSE "pending"

\* a plausible slip: the removers are dropped without being run
CleanupWithoutRemoval ==
    /\ listeners' = listeners
    /\ cleanupHandlers' = {}
    /\ child' = NoChild
    /\ terminated' = TRUE

\* cleanup(): remove every registered handler, drop the child, set the latch
Cleanup ==
    /\ listeners' = listeners \ cleanupHandlers
    /\ cleanupHandlers' = {}
    /\ child' = NoChild
    /\ terminated' = TRUE

\* child.kill(signal) raises for a signal name the runtime does not know
KillRaises(signal) == signal \notin GracefulSignals

\* a plausible slip: the kill calls are made outside any try block
NoCatchClause == "thrown"

\* try { ... } catch (error) { this.log(...) }: an error raised by the kill
\* calls is logged and goes no further
CatchClause == "logged"

\* a plausible slip: the handle is tested but not its pid
DeclinesWithoutPid == terminated \/ child = NoChild

\* if (this.terminated || !this.child || !this.child.pid) return
Declines == terminated \/ child = NoChild \/ ~pid[child]

\* terminate(signal): the latch and the kill sequence.  Constrains termVars.
Terminate(signal) ==
    IF Declines
    THEN UNCHANGED termVars
    ELSE /\ terminated' = TRUE
         /\ kills' = [kills EXCEPT ![child] = @ + 1]
         /\ IF isWindows
            THEN \* treeKill(pid, 'SIGTERM', callback)
                 /\ treeKills' = treeKills \cup {child}
                 /\ UNCHANGED <<killed, sigPending, forceKillTimers, termError>>
            ELSE IF ~KillRaises(signal)
                 THEN \* child.kill(signal), then the 3 s force-kill timer
                      /\ ChildKill(child, signal)
                      /\ forceKillTimers' = forceKillTimers \cup {child}
                      /\ UNCHANGED <<treeKills, termError>>
                 ELSE \* child.kill throws: caught and logged, no timer is set
                      /\ termError' = CatchClause
                      /\ UNCHANGED <<killed, sigPending, forceKillTimers, treeKills>>

\* get killed(): this.terminated || (this.child?.killed || false)
Killed == terminated \/ (child # NoChild /\ killed[child])

\* the instances whose handler for event e is registered on the host process;
\* each handler is a closure over its own instance and calls this.terminate()
HandlerOf(e) ==
    (IF e \in listeners THEN {"self"} ELSE {})
        \cup (IF e \in peer.listeners THEN {"peer"} ELSE {})

\* terminate() of the second instance, which holds a child with a pid from
\* its start() until its cleanup()
PeerTerminate ==
    IF peer.terminated \/ peer.child \notin {"alive", "dead"}
    THEN peer
    ELSE [peer EXCEPT !.terminated = TRUE, !.kills = @ + 1]

\* the handlers registered for event e run: each calls its instance's terminate()
RunHandlers(e) ==
    /\ IF "self" \in HandlerOf(e) THEN Terminate("SIGTERM") ELSE UNCHANGED termVars
    /\ peer' = IF "peer" \in HandlerOf(e) THEN PeerTerminate ELSE peer

\* a plausible slip: pid made to follow the latch as killed does
PidUnlessTerminated == IF child # NoChild /\ pid[child] /\ ~terminated THEN child ELSE NoChild

\* get pid(): this.child?.pid; NoChild stands for undefined, a child's id for
\* its positive process identifier
Pid == IF child # NoChild /\ pid[child] THEN child ELSE NoChild

\* process.exit(code): the 'exit' listeners run, then the host is gone
ProcessExit(code) ==
    /\ RunHandlers("exit")
    /\ host' = "exited"
    /\ hostCode' = code

\* a plausible slip: the guard of start() also consults the latch, so that a
\* start() after terminate() is let through while the child is still held
AlreadyStartedUnlessTerminated == child # NoChild /\ ~terminated

\* the guard of start(): if (this.child)
AlreadyStarted == child # NoChild

\* start(): throws while a child is held, otherwise spawns, registers the
\* handlers, creates the exit promise and arms the timeout timer.  ok: the
\* spawn succeeds; k: how the child treats graceful signals; d: the child is
\* a launcher that has spawned a descendant process by the time start() returns.
StartChild(ok, k, d) ==
    /\ host = "running"
    /\ IF AlreadyStarted
       THEN \* throw new Error('Process already started')
            UNCHANGED vars
       ELSE /\ spawned < MaxSpawns
            /\ ok \/ k = "normal"
            /\ LET c == spawned + 1 IN
                /\ spawned' = c
                /\ child' = c
                /\ pid' = [pid EXCEPT ![c] = ok]
                /\ os' = [os EXCEPT ![c] = IF ok THEN "alive" ELSE "failed"]
                /\ kind' = [kind EXCEPT ![c] = k]
                /\ desc' = [desc EXCEPT ![c] = ok /\ d]
                /\ childEnv' = SpawnEnv(parentEnv, optionsEnv)
                /\ listeners' = listeners \cup HandledEvents
                /\ cleanupHandlers' = cleanupHandlers \cup HandledEvents
                /\ promise' = [promise EXCEPT ![c] = NewExitPromise(c)]
                /\ result' = [result EXCEPT ![c] = IF c = NoChild THEN NullCode ELSE @]
                /\ timeoutTimers' = IF timeoutOpt THEN timeoutTimers \cup {c}
                                                  ELSE timeoutTimers
            /\ UNCHANGED <<terminated, killed, sigPending, forceKillTimers, treeKills,
                           kills, termError, exitCode, exitSignal, sigExitTimers,
                           excExitTimers, hostVars, optVars, entryVars, fsVars, histVars, peer>>

\* start() of a command that spawns no process of its own
Start(ok, k) == StartChild(ok, k, FALSE)

\* start() of a command that is a launcher (a shell, npx): it has descendants
StartLauncher(ok, k) == StartChild(ok, k, TRUE)

\* an explicit terminate(signal) call by the embedding program
TerminateCall(signal) ==
    /\ host = "running"
    /\ Terminate(signal)
    /\ UNCHANGED <<child, cleanupHandlers, listeners, childVars, promVars, timerVars,
                   hostVars, optVars, entryVars, fsVars, histVars, peer>>

\* the same call, with a note of whether it was made with no child with a pid
TerminateNoted(signal) ==
    /\ host = "running"
    /\ Terminate(signal)
    /\ declined' = (declined \/ child = NoChild \/ ~pid[child])
    /\ UNCHANGED <<child, cleanupHandlers, listeners, childVars, promVars, timerVars,
                   hostVars, optVars, entryVars, fsVars, timeoutDiags, lateTimeouts, peer>>

\* a plausible slip: the timer checks the child handle but not the latch
TimeoutFiresNoLatch(c) ==
    /\ host = "running"
    /\ c \in timeoutTimers
    /\ timeoutTimers' = timeoutTimers \ {c}
    /\ lateTimeouts' = IF os[c] = "reaped" THEN lateTimeouts \cup {c} ELSE lateTimeouts
    /\ IF child # NoChild
       THEN /\ timeoutDiags' = IF Emits("error") THEN timeoutDiags + 1 ELSE timeoutDiags
            /\ Terminate("SIGTERM")
       ELSE UNCHANGED <<timeoutDiags, termVars>>
    /\ UNCHANGED <<child, cleanupHandlers, listeners, childVars, promVars,
                   sigExitTimers, excExitTimers, hostVars, optVars, declined, entryVars, fsVars, peer>>

\* the timeout timer of the start() call that spawned c fires
TimeoutFires(c) ==
    /\ host = "running"
    /\ c \in timeoutTimers
    /\ timeoutTimers' = timeoutTimers \ {c}
    /\ lateTimeouts' = IF os[c] = "reaped" THEN lateTimeouts \cup {c} ELSE lateTimeouts
    /\ IF ~terminated /\ child # NoChild
       THEN /\ timeoutDiags' = IF Emits("error") THEN timeoutDiags + 1 ELSE timeoutDiags
            /\ Terminate("SIGTERM")
       ELSE UNCHANGED <<timeoutDiags, termVars>>
    /\ UNCHANGED <<child, cleanupHandlers, listeners, childVars, promVars,
                   sigExitTimers, excExitTimers, hostVars, optVars, declined, entryVars, fsVars, peer>>

\* a signal reaches the host process: the instance's handler runs when one is
\* registered, otherwise the default disposition ends the host
HostSignal(s) ==
    /\ host = "running"
    /\ sigExitTimers < MaxSigTimers
    /\ IF HandlerOf(s) # {}
       THEN /\ RunHandlers(s)
            /\ sigExitTimers' = IF "self" \in HandlerOf(s) THEN sigExitTimers + 1
                                                            ELSE sigExitTimers
            /\ UNCHANGED hostVars
       ELSE /\ host' = "killed"
            /\ UNCHANGED <<hostCode, termVars, sigExitTimers, peer>>
    /\ UNCHANGED <<child, cleanupHandlers, listeners, childVars, promVars,
                   timeoutTimers, excExitTimers, optVars, entryVars, fsVars, histVars>>

\* the 5 s timer of a signal handler fires
SigExitTimerFires ==
    /\ host = "running"
    /\ sigExitTimers > 0
    /\ sigExitTimers' = sigExitTimers - 1
    /\ IF ~terminated
       THEN ProcessExit(0)
       ELSE UNCHANGED <<hostVars, termVars, peer>>
    /\ UNCHANGED <<child, cleanupHandlers, listeners, childVars, promVars,
                   timeoutTimers, excExitTimers, optVars, entryVars, fsVars, histVars>>

\* an exception nobody catches: the instance's handler runs when registered,
\* otherwise the runtime ends the host with status 1
UncaughtException ==
    /\ host = "running"
    /\ excExitTimers < MaxExcTimers
    /\ IF HandlerOf("uncaughtException") # {}
       THEN /\ RunHandlers("uncaughtException")
            /\ excExitTimers' = excExitTimers + 1
            /\ UNCHANGED hostVars
       ELSE /\ ProcessExit(1)
            /\ UNCHANGED excExitTimers
    /\ UNCHANGED <<child, cleanupHandlers, listeners, childVars, promVars,
                   timeoutTimers, sigExitTimers, optVars, entryVars, fsVars, histVars>>

\* the 1 s timer of the uncaughtException handler fires
ExcExitTimerFires ==
    /\ host = "running"
    /\ excExitTimers > 0
    /\ excExitTimers' = excExitTimers - 1
    /\ ProcessExit(1)
    /\ UNCHANGED <<child, cleanupHandlers, listeners, childVars, promVars,
                   timeoutTimers, sigExitTimers, optVars, entryVars, fsVars, histVars>>

\* the host process ends because the embedding program calls process.exit(code):
\* the 'exit' event is emitted and the instance's exitHandler runs
HostExit(code) ==
    /\ host = "running"
    /\ ProcessExit(code)
    /\ UNCHANGED <<child, cleanupHandlers, listeners, childVars, promVars,
                   timerVars, optVars, entryVars, fsVars, histVars>>

\* the 3 s timer armed by the terminate() call made for c fires
ForceKillTimerFires(c) ==
    /\ host = "running"
    /\ c \in forceKillTimers
    /\ forceKillTimers' = forceKillTimers \ {c}
    /\ IF child # NoChild /\ ~killed[child]
       THEN ChildKill(child, "SIGKILL")
       ELSE UNCHANGED <<killed, sigPending>>
    /\ UNCHANGED <<instVars, treeKills, kills, termError, childVars, promVars, timerVars,
                   hostVars, optVars, entryVars, fsVars, histVars, peer>>

\* the tree-kill started by the terminate() call made for c ends.  It runs
\* "taskkill /pid <pid> /T /F" as a process of its own: on success the tree is
\* forcibly ended (exit code 1); on error the callback, when the host still
\* runs, falls back to this.child?.kill('SIGKILL').
TreeKillDone(c, err) ==
    /\ c \in treeKills
    /\ treeKills' = treeKills \ {c}
    /\ IF err
       THEN /\ IF host = "running" /\ child # NoChild
               THEN ChildKill(child, "SIGKILL")
               ELSE UNCHANGED <<killed, sigPending>>
            /\ UNCHANGED <<os, exitCode, exitSignal, desc>>
       ELSE /\ os[c] = "alive"
            /\ os' = [os EXCEPT ![c] = "dead"]
            /\ exitCode' = [exitCode EXCEPT ![c] = 1]
            /\ exitSignal' = [exitSignal EXCEPT ![c] = NoSignal]
            /\ sigPending' = [sigPending EXCEPT ![c] = NoSignal]
            /\ desc' = [desc EXCEPT ![c] = FALSE]
            /\ UNCHANGED killed
    /\ UNCHANGED <<instVars, forceKillTimers, kills, termError, spawned, pid, childEnv, kind, promVars,
                   timerVars, hostVars, optVars, entryVars, fsVars, histVars, peer>>

\* the child ends on its own with an exit code
ChildExits(c, code) ==
    /\ os[c] = "alive"
    /\ kind[c] = "normal"
    /\ os' = [os EXCEPT ![c] = "dead"]
    /\ exitCode' = [exitCode EXCEPT ![c] = code]
    /\ exitSignal' = [exitSignal EXCEPT ![c] = NoSignal]
    /\ sigPending' = [sigPending EXCEPT ![c] = NoSignal]
    /\ UNCHANGED <<instVars, killed, forceKillTimers, treeKills, kills, termError, spawned, pid, childEnv, desc,
                   kind, promVars, timerVars, hostVars, optVars, entryVars, fsVars, histVars, peer>>

\* a signal sent to the child ends it: SIGKILL always, a graceful signal unless
\* the child ignores it (on Windows every signal sent through the handle is an
\* unconditional kill)
ChildKilledBySignal(c) ==
    /\ os[c] = "alive"
    /\ sigPending[c] # NoSignal
    /\ sigPending[c] = "SIGKILL" \/ isWindows \/ kind[c] # "stubborn"
    /\ os' = [os EXCEPT ![c] = "dead"]
    /\ exitCode' = [exitCode EXCEPT ![c] = NullCode]
    /\ exitSignal' = [exitSignal EXCEPT ![c] = sigPending[c]]
    /\ sigPending' = [sigPending EXCEPT ![c] = NoSignal]
    /\ UNCHANGED <<instVars, killed, forceKillTimers, treeKills, kills, termError, spawned, pid, childEnv, desc,
                   kind, promVars, timerVars, hostVars, optVars, entryVars, fsVars, histVars, peer>>

\* a descendant of c ends on its own
DescendantExits(c) ==
    /\ desc[c]
    /\ desc' = [desc EXCEPT ![c] = FALSE]
    /\ UNCHANGED <<instVars, killed, sigPending, forceKillTimers, treeKills, kills, termError,
                   spawned, pid, childEnv, os, kind, exitCode, exitSignal, promVars, timerVars,
                   hostVars, optVars, entryVars, fsVars, histVars, peer>>

\* a plausible slip: the outcome is kept in one field of the instance that
\* every observed exit overwrites, not in the promise of the start() call
ResolveShared(c, v) ==
    /\ promise' = [promise EXCEPT ![c] = "resolved"]
    /\ result' = [x \in Children |-> IF promise[x] # "none" THEN v ELSE result[x]]

\* resolve(v) of the promise created by the start() call that spawned c: a
\* pending promise takes the value, a resolved one keeps its own
Resolve(c, v) ==
    /\ promise' = [promise EXCEPT ![c] = "resolved"]
    /\ result' = [result EXCEPT ![c] = IF promise[c] = "pending" THEN v ELSE @]

\* the 'exit' listener of child c runs: cleanup(), then resolve(code || 0)
ExitNotification(c) ==
    /\ host = "running"
    /\ os[c] = "dead"
    /\ os' = [os EXCEPT ![c] = "reaped"]
    /\ Cleanup
    /\ Resolve(c, CodeOrZero(exitCode[c]))
    /\ UNCHANGED <<killed, sigPending, forceKillTimers, treeKills, kills, termError, spawned, pid, childEnv, desc,
                   kind, exitCode, exitSignal, timerVars, hostVars, optVars, entryVars, fsVars, histVars, peer>>

\* the 'error' listener of a child that could not be spawned runs: it logs
ErrorNotification(c) ==
    /\ host = "running"
    /\ os[c] = "failed"
    /\ os' = [os EXCEPT ![c] = "errored"]
    /\ UNCHANGED <<instVars, killed, sigPending, forceKillTimers, treeKills, kills, termError,
                   spawned, pid, childEnv, desc, kind, exitCode, exitSignal, promVars, timerVars,
                   hostVars, optVars, entryVars, fsVars, histVars, peer>>

\* start() of the second instance: it spawns its child and registers its own
\* handlers on the host process
PeerStart ==
    /\ host = "running"
    /\ peer.child = "none"
    /\ peer' = [peer EXCEPT !.child = "alive", !.listeners = HandledEvents]
    /\ UNCHANGED selfVars

\* the child of the second instance ends
PeerChildExits ==
    /\ peer.child = "alive"
    /\ peer' = [peer EXCEPT !.child = "dead"]
    /\ UNCHANGED selfVars

\* the 'exit' listener of the second instance's child runs: its cleanup()
\* removes the handlers that instance registered, drops its child, sets its latch
PeerExitNotification ==
    /\ host = "running"
    /\ peer.child = "dead"
    /\ peer' = [peer EXCEPT !.child = "reaped", !.listeners = {}, !.terminated = TRUE]
    /\ UNCHANGED selfVars

\* start() when spawn raises synchronously (an argument the runtime refuses):
\* nothing is assigned or registered and the promise of the call is rejected
StartThrows ==
    /\ host = "running"
    /\ child = NoChild /\ spawned = 0 /\ promise[1] = "none"
    /\ promise' = [promise EXCEPT ![1] = "rejected"]
    /\ UNCHANGED <<instVars, termVars, childVars, result, timerVars, hostVars,
                   histVars, optVars, entryVars, fsVars, peer>>

\* a plausible slip: start() is not awaited, the program exits with status 0
\* as soon as the call has been made
CliExitWithoutAwait(c) ==
    /\ host = "running"
    /\ promise[c] # "none"
    /\ ProcessExit(0)
    /\ UNCHANGED <<child, cleanupHandlers, listeners, childVars, promVars,
                   timerVars, optVars, entryVars, fsVars, histVars>>

\* cli.ts, runWrapper: the await on the c-th start() has returned its exit code
\* and the program ends with process.exit(exitCode), or it has raised and the
\* program ends with process.exit(1)
CliExit(c) ==
    /\ host = "running"
    /\ promise[c] \in {"resolved", "rejected"}
    /\ ProcessExit(IF promise[c] = "resolved" THEN result[c] ELSE 1)
    /\ UNCHANGED <<child, cleanupHandlers, listeners, childVars, promVars,
                   timerVars, optVars, entryVars, fsVars, histVars>>

\* what the runtime and the operating system do
Events ==
    \/ \E c \in Children : TimeoutFires(c)
    \/ \E s \in HandledSignals : HostSignal(s)
    \/ SigExitTimerFires
    \/ UncaughtException
    \/ ExcExitTimerFires
    \/ \E c \in Children : ForceKillTimerFires(c)
    \/ \E c \in Children, err \in BOOLEAN : TreeKillDone(c, err)
    \/ \E c \in Children, code \in ExitCodes : ChildExits(c, code)
    \/ \E c \in Children : ChildKilledBySignal(c)
    \/ \E c \in Children : ExitNotification(c)
    \/ \E c \in Children : ErrorNotification(c)

\* what the runtime, the operating system and the host's environment do
Callbacks ==
    \/ Events
    \/ \E code \in 0..1 : HostExit(code)

\* ------------------------------------------- migration of server entries

\* server.args?. : an entry without args behaves as one with none
Args(s) == IF s.hasArgs THEN s.args ELSE <<>>

\* args.includes(x)
Has(args, x) == \E i \in 1..Len(args) : args[i] = x

\* args.indexOf(x), counted from 1, for an x that args has
IndexOf(args, x) ==
    CHOOSE i \in 1..Len(args) : args[i] = x /\ \A j \in 1..(i - 1) : args[j] # x

\* args.slice(i), i counted from 0
Slice(args, i) == SubSeq(args, i + 1, Len(args))

\* args.filter(arg => arg !== x)
Without(args, x) == SelectSeq(args, LAMBDA a : a # x)

\* arg.includes('mcp'), over the tokens of the model
IncludesMcp(t) == t \in {"reliable-mcp", "server-mcp"}

\* arg.includes('mcp') || arg.includes('modelcontextprotocol')
NamesMcp(t) == IncludesMcp(t) \/ t = "@modelcontextprotocol/server"

\* args.some(arg => ...)
SomeArg(args, matching) == \E i \in 1..Len(args) : args[i] \in matching

\* the entry written by transformMCPServer: reliable-mcp itself when it is
\* installed globally, npx -y reliable-mcp otherwise
Wrapper(global, name, rest) ==
    IF global
    THEN [command |-> "reliable-mcp", hasArgs |-> TRUE,
          args |-> <<"--label", name, "--">> \o rest]
    ELSE [command |-> "npx", hasArgs |-> TRUE,
          args |-> <<"-y", "reliable-mcp", "--label", name, "--">> \o rest]

\* MCPServerMigrator.transformMCPServer(name, server)
TransformMCPServer(name, s, global) ==
    LET args == Args(s)
        commandArgs == Slice(args, IndexOf(args, "/c"))
        same == [server |-> s, changed |-> FALSE]
        to(rest) == [server |-> Wrapper(global, name, rest), changed |-> TRUE]
    IN  IF s.command \in {"cmd", "cmd.exe"}
        THEN IF Has(args, "/c")
             THEN IF commandArgs # <<>> /\ commandArgs[1] = "npx"
                  THEN to(<<"npx", "-y">> \o Without(Slice(commandArgs, 1), "-y"))
                  ELSE to(commandArgs)
             ELSE same
        ELSE IF s.command = "npx" /\ ~Has(args, "reliable-mcp")
        THEN IF SomeArg(args, {t \in ArgTokens : NamesMcp(t)})
             THEN to(<<"npx", "-y">> \o Without(args, "-y"))
             ELSE same
        ELSE IF s.command \in {"node", "node.exe"}
        THEN IF args # <<>> /\ IncludesMcp(args[1])
             THEN to(<<s.command>> \o args)
             ELSE same
        ELSE IF s.command \in {"python", "python3"}
        THEN IF SomeArg(args, {t \in ArgTokens : IncludesMcp(t)})
             THEN to(<<s.command>> \o args)
             ELSE same
        ELSE same

\* transformConfig, for one entry of config.mcpServers
TransformConfig(name, s) ==
    LET args == Args(s)
        commandArgs == Slice(args, IndexOf(args, "/c"))
        same == [server |-> s, changed |-> FALSE]
        prefix == <<"-y", "reliable-mcp", "--label", name, "--">>
        to(rest) == [server |-> [command |-> "npx", hasArgs |-> TRUE,
                                 args |-> prefix \o rest],
                     changed |-> TRUE]
    IN  IF s.command = "cmd" /\ Len(args) >= 2 /\ args[1] = "/c" /\ args[2] = "npx"
        THEN to(<<"npx", "-y">> \o Without(Slice(args, 2), "-y"))
        ELSE IF s.command \in {"cmd", "cmd.exe"} /\ Has(args, "/c")
        THEN IF SomeArg(commandArgs, {t \in ArgTokens : NamesMcp(t)})
             THEN to(commandArgs)
             ELSE same
        ELSE IF s.command = "npx" /\ ~Has(args, "reliable-mcp") /\ SomeArg(args, {t \in ArgTokens : NamesMcp(t)})
        THEN to(<<"npx", "-y">> \o Without(args, "-y"))
        ELSE IF s.command = "node" /\ args # <<>> /\ IncludesMcp(args[1])
        THEN to(<<"node">> \o args)
        ELSE same

\* the migration function of the behaviour, applied to an entry
Transformed(name, s, global) ==
    IF transformation = "transformMCPServer"
    THEN TransformMCPServer(name, s, global)
    ELSE TransformConfig(name, s)

\* one migration run over the entry; every run detects anew whether
\* reliable-mcp is installed globally
ApplyTransformation(global) ==
    /\ passes < MaxPasses
    /\ server' = Transformed(serverName, server, global).server
    /\ changed' = Transformed(serverName, server, global).changed
    /\ passes' = passes + 1
    /\ UNCHANGED <<transformation, serverName, wrapperVars, fsVars>>

TransformNext == \E global \in BOOLEAN : ApplyTransformation(global)

TransformSpec == TransformInit /\ [][TransformNext]_vars

\* ------------------------------------------- migrate and restore commands

\* fs.writeFileSync(p, c), and every other call that creates or replaces p
WriteFile(f, p, c) == [q \in DOMAIN f \cup {p} |-> IF q = p THEN c ELSE f[q]]

\* fs.unlinkSync(p)
Unlink(f, p) == [q \in DOMAIN f \ {p} |-> f[q]]

\* fs.copyFileSync(from, to)
CopyFile(f, from, to) == WriteFile(f, to, f[from])

\* fs.renameSync(from, to)
Rename(f, from, to) == Unlink(WriteFile(f, to, f[from]), from)

\* fs.existsSync(p)
Exists(p) == p \in DOMAIN fs

\* the run is at position pc of command cmd
Running(cmd, pc) == job.cmd = cmd /\ job.pc = pc

\* the command ends (it returns, or the process exits)
Ended == [job EXCEPT !.pc = "done"]

\* what a write leaves in file p: the content, or, when it fails, the old
\* file or a file cut short
Written(f, p, c, outcome) ==
    CASE outcome = "written" -> WriteFile(f, p, c)
      [] outcome = "untouched" -> f
      [] outcome = "truncated" -> WriteFile(f, p, Empty)

WriteOutcomes == {"written", "untouched", "truncated"}

\* a migrate or restore command is run with its options; the probe for a
\* global installation belongs to MCPServerMigrator alone, the size of the
\* file (over 10 MB or not) matters to migrateConfig alone
StartTool(cmd, dryRun, force, global, large) ==
    /\ job.cmd = "none"
    /\ global => cmd = "migrate-json"
    /\ large => cmd = "migrate-streaming"
    /\ job' = [IdleJob EXCEPT !.cmd = cmd, !.pc = "start", !.dryRun = dryRun,
                              !.force = force, !.global = global, !.large = large]
    /\ fs0' = fs
    /\ UNCHANGED <<fs, clock, wrapperVars, entryVars>>

\* time passes while a command runs
Tick ==
    /\ job.cmd # "none" /\ job.pc # "done"
    /\ clock < MaxTime
    /\ clock' = clock + 1
    /\ UNCHANGED <<fs, job, fs0, wrapperVars, entryVars>>

\* migrate, in memory: the file is looked for and read
MainRead ==
    /\ Running("migrate", "start")
    /\ job' = IF Exists(Config)
              THEN [job EXCEPT !.config = fs[Config], !.pc = "backup"]
              ELSE Ended
    /\ UNCHANGED <<fs, clock, fs0, wrapperVars, entryVars>>

\* a plausible slip: the backup made whatever the options
MakesBackupAlways(dryRun) == TRUE

\* migrate, in memory: if (!dryRun) before the backup is copied
MakesBackup(dryRun) == ~dryRun

\* migrate, in memory: the backup, then the transformation and what it decides
MainBackup(ok) ==
    /\ Running("migrate", "backup")
    /\ ~ok => MakesBackup(job.dryRun)
    /\ IF ~ok
       THEN /\ fs' = fs
            /\ job' = Ended
       ELSE LET t == TransformConfig(serverName, job.config)
            IN  /\ fs' = IF MakesBackup(job.dryRun)
                         THEN CopyFile(fs, Config, Backup(clock))
                         ELSE fs
                /\ job' = [job EXCEPT
                             !.backupTs = clock,
                             !.config = t.server,
                             !.changes = t.changed,
                             !.pc = IF ~t.changed \/ job.dryRun THEN "done"
                                    ELSE IF ~job.force THEN "confirm"
                                    ELSE "write"]
    /\ UNCHANGED <<clock, fs0, wrapperVars, entryVars>>

\* migrate, in memory: the answer to 'Apply these changes?'
MainAnswer(yes) ==
    /\ Running("migrate", "confirm")
    /\ IF yes
       THEN /\ fs' = fs
            /\ job' = [job EXCEPT !.pc = "write"]
       ELSE /\ fs' = Unlink(fs, Backup(job.backupTs))
            /\ job' = Ended
    /\ UNCHANGED <<clock, fs0, wrapperVars, entryVars>>

\* migrate, in memory: the new configuration is written
MainWrite(outcome) ==
    /\ Running("migrate", "write")
    /\ fs' = Written(fs, Config, job.config, outcome)
    /\ job' = IF outcome = "written" THEN Ended ELSE [job EXCEPT !.pc = "rollback"]
    /\ UNCHANGED <<clock, fs0, wrapperVars, entryVars>>

\* migrate, in memory: a failed write is undone from the backup
MainRollback ==
    /\ Running("migrate", "rollback")
    /\ fs' = CopyFile(fs, Backup(job.backupTs), Config)
    /\ job' = Ended
    /\ UNCHANGED <<clock, fs0, wrapperVars, entryVars>>

\* a plausible slip: the new configuration written without a backup
AfterTransformNoBackup(modified, dryRun) ==
    IF modified /\ ~dryRun THEN "write" ELSE "done"

\* processClaudeJson, processMCPJson: if (modified && !this.options.dryRun)
AfterTransform(modified, dryRun) ==
    IF modified /\ ~dryRun THEN "backup" ELSE "done"

\* processClaudeJson, processMCPJson: the file is read and its entry transformed
JsonRead ==
    /\ Running("migrate-json", "start")
    /\ job' = IF Exists(Config)
              THEN LET t == TransformMCPServer(serverName, fs[Config], job.global)
                   IN  [job EXCEPT !.config = t.server, !.changes = t.changed,
                                   !.pc = AfterTransform(t.changed, job.dryRun)]
              ELSE Ended
    /\ UNCHANGED <<fs, clock, fs0, wrapperVars, entryVars>>

\* processClaudeJson, processMCPJson: the backup is copied
JsonBackup(ok) ==
    /\ Running("migrate-json", "backup")
    /\ IF ok
       THEN /\ fs' = CopyFile(fs, Config, Backup(clock))
            /\ job' = [job EXCEPT !.backupTs = clock, !.pc = "write"]
       ELSE /\ fs' = fs
            /\ job' = Ended
    /\ UNCHANGED <<clock, fs0, wrapperVars, entryVars>>

\* processClaudeJson, processMCPJson: the new configuration is written
JsonWrite(outcome) ==
    /\ Running("migrate-json", "write")
    /\ fs' = Written(fs, Config, job.config, outcome)
    /\ job' = Ended
    /\ UNCHANGED <<clock, fs0, wrapperVars, entryVars>>

\* args[0].startsWith('/'), over the tokens of the model
StartsWithSlash(t) == t = "/c"

\* MCPConfigTransformer.transformArgs; changed is FALSE where it returns null
TransformArgs(name, args) ==
    LET prefix == <<"-y", "reliable-mcp", "--label", name, "--">>
        commandArgs == Slice(args, IndexOf(args, "/c"))
        to(rest) == [args |-> prefix \o rest, changed |-> TRUE]
    IN  IF args # <<>> /\ (args[1] = "/c" \/ (Has(args, "/c") /\ StartsWithSlash(args[1])))
        THEN IF commandArgs # <<>> /\ commandArgs[1] = "npx"
             THEN to(<<"npx", "-y">> \o Slice(commandArgs, 1))
             ELSE to(commandArgs)
        ELSE IF args # <<>> /\ NamesMcp(args[1]) /\ ~Has(args, "reliable-mcp")
        THEN to(<<"npx", "-y">> \o Without(args, "-y"))
        ELSE [args |-> args, changed |-> FALSE]

\* MCPConfigTransformer.transformMCPServerLine over the lines of one entry,
\* laid out with its args array on one line
StreamTransform(name, s) ==
    LET a == TransformArgs(name, s.args)
        argsChanged == s.hasArgs /\ a.changed
    IN  [server |-> [command |-> IF s.command = "cmd" THEN "npx" ELSE s.command,
                     hasArgs |-> s.hasArgs,
                     args |-> IF argsChanged THEN a.args ELSE s.args],
         changed |-> s.command = "cmd" \/ argsChanged]

\* migrateConfig, streaming: the file is looked up, the two paths are named
\* and the backup is copied
StreamBackup(ok) ==
    /\ Running("migrate-streaming", "start")
    /\ job.large
    /\ ~ok => (Exists(Config) /\ ~job.dryRun)
    /\ IF ~Exists(Config) \/ ~ok
       THEN /\ fs' = fs
            /\ job' = Ended
       ELSE /\ fs' = IF ~job.dryRun THEN CopyFile(fs, Config, Backup(clock)) ELSE fs
            /\ job' = [job EXCEPT !.tempTs = clock, !.backupTs = clock, !.pc = "process"]
    /\ UNCHANGED <<clock, fs0, wrapperVars, entryVars>>

\* processLargeConfig: the transformed file is written to the temporary path
StreamProcess(ok) ==
    /\ Running("migrate-streaming", "process")
    /\ LET t == StreamTransform(serverName, fs[Config])
       IN  IF ok
           THEN /\ fs' = WriteFile(fs, Temp(job.tempTs), t.server)
                /\ job' = [job EXCEPT
                             !.changes = t.changed,
                             !.pc = IF ~t.changed THEN "unchanged"
                                    ELSE IF ~job.dryRun /\ ~job.force THEN "confirm"
                                    ELSE "apply"]
           ELSE /\ fs' = WriteFile(fs, Temp(job.tempTs), Empty)
                /\ job' = [job EXCEPT !.pc = "failed"]
    /\ UNCHANGED <<clock, fs0, wrapperVars, entryVars>>

\* migrateConfig, streaming: the catch clause removes the temporary file
StreamCleanup ==
    /\ Running("migrate-streaming", "failed")
    /\ fs' = Unlink(fs, Temp(job.tempTs))
    /\ job' = Ended
    /\ UNCHANGED <<clock, fs0, wrapperVars, entryVars>>

\* migrateConfig, streaming: no changes, the temporary file is removed
StreamNoChanges ==
    /\ Running("migrate-streaming", "unchanged")
    /\ fs' = Unlink(fs, Temp(job.tempTs))
    /\ job' = Ended
    /\ UNCHANGED <<clock, fs0, wrapperVars, entryVars>>

\* migrateConfig, streaming: the answer to 'Apply changes?'
StreamAnswer(yes) ==
    /\ Running("migrate-streaming", "confirm")
    /\ IF yes
       THEN /\ fs' = fs
            /\ job' = [job EXCEPT !.pc = "apply"]
       ELSE /\ fs' = Unlink(Unlink(fs, Temp(job.tempTs)), Backup(job.backupTs))
            /\ job' = Ended
    /\ UNCHANGED <<clock, fs0, wrapperVars, entryVars>>

\* migrateConfig, streaming: the temporary file replaces the configuration,
\* or is removed in a dry run
StreamApply ==
    /\ Running("migrate-streaming", "apply")
    /\ fs' = IF ~job.dryRun
             THEN Rename(fs, Temp(job.tempTs), Config)
             ELSE Unlink(fs, Temp(job.tempTs))
    /\ job' = Ended
    /\ UNCHANGED <<clock, fs0, wrapperVars, entryVars>>

\* migrateConfig, file of 10 MB or less: the file is read and transformed
SmallRead ==
    /\ Running("migrate-streaming", "start")
    /\ ~job.large
    /\ job' = IF Exists(Config)
              THEN LET t == TransformConfig(serverName, fs[Config])
                   IN  [job EXCEPT !.config = t.server, !.changes = t.changed,
                                   !.pc = IF ~t.changed \/ job.dryRun THEN "done"
                                          ELSE "backup"]
              ELSE Ended
    /\ UNCHANGED <<fs, clock, fs0, wrapperVars, entryVars>>

\* migrateConfig, file of 10 MB or less: the backup is copied
SmallBackup(ok) ==
    /\ Running("migrate-streaming", "backup")
    /\ IF ok
       THEN /\ fs' = CopyFile(fs, Config, Backup(clock))
            /\ job' = [job EXCEPT !.backupTs = clock, !.pc = "write"]
       ELSE /\ fs' = fs
            /\ job' = Ended
    /\ UNCHANGED <<clock, fs0, wrapperVars, entryVars>>

\* migrateConfig, file of 10 MB or less: the new configuration is written
SmallWrite(outcome) ==
    /\ Running("migrate-streaming", "write")
    /\ fs' = Written(fs, Config, job.config, outcome)
    /\ job' = Ended
    /\ UNCHANGED <<clock, fs0, wrapperVars, entryVars>>

\* a plausible slip: the comparator the other way round, oldest first
Older(a, b) == a < b

\* the sort comparator timestampB - timestampA: a goes before b when it is newer
Newer(a, b) == a > b

\* backups.sort(comparator), by insertion
RECURSIVE Insert(_, _)
Insert(x, sorted) ==
    IF sorted = <<>> THEN <<x>>
    ELSE IF Newer(x, Head(sorted)) THEN <<x>> \o sorted
    ELSE <<Head(sorted)>> \o Insert(x, Tail(sorted))

RECURSIVE SortBackups(_)
SortBackups(list) ==
    IF list = <<>> THEN <<>> ELSE Insert(Head(list), SortBackups(Tail(list)))

\* the timestamps of the backups glob finds, in any order
Listings ==
    LET found == {t \in Times : Exists(Backup(t))}
    IN  {l \in [1..Cardinality(found) -> found] :
            \A i, j \in DOMAIN l : i # j => l[i] # l[j]}

\* restoreSingle, restoreAll: the backups are listed and sorted and the first
\* is chosen
RestoreFind(list) ==
    /\ Running("restore", "start")
    /\ list \in Listings
    /\ job' = IF list = <<>> THEN Ended
              ELSE [job EXCEPT !.latest = Head(SortBackups(list)),
                               !.pc = IF job.dryRun THEN "done"
                                      ELSE IF ~job.force THEN "confirm"
                                      ELSE "restore"]
    /\ UNCHANGED <<fs, clock, fs0, wrapperVars, entryVars>>

\* restoreSingle, restoreAll: the answer to 'Restore from this backup?'
RestoreAnswer(yes) ==
    /\ Running("restore", "confirm")
    /\ job' = IF yes THEN [job EXCEPT !.pc = "restore"] ELSE Ended
    /\ UNCHANGED <<fs, clock, fs0, wrapperVars, entryVars>>

\* restoreFile: the checks, and the safety backup of an existing file
RestoreSafety ==
    /\ Running("restore", "restore")
    /\ IF ~Exists(Backup(job.latest)) \/ job.dryRun
       THEN /\ fs' = fs
            /\ job' = Ended
       ELSE /\ fs' = IF Exists(Config) THEN CopyFile(fs, Config, Safety(clock)) ELSE fs
            /\ job' = [job EXCEPT !.pc = "copy"]
    /\ UNCHANGED <<clock, fs0, wrapperVars, entryVars>>

\* restoreFile: the backup is copied over the configuration file
RestoreCopy ==
    /\ Running("restore", "copy")
    /\ fs' = CopyFile(fs, Backup(job.latest), Config)
    /\ job' = Ended
    /\ UNCHANGED <<clock, fs0, wrapperVars, entryVars>>

FsNext ==
    \/ \E cmd \in ToolCommands, dryRun, force, global, large \in BOOLEAN :
          StartTool(cmd, dryRun, force, global, large)
    \/ Tick
    \/ MainRead
    \/ \E ok \in BOOLEAN : MainBackup(ok)
    \/ \E yes \in BOOLEAN : MainAnswer(yes)
    \/ \E outcome \in WriteOutcomes : MainWrite(outcome)
    \/ MainRollback
    \/ JsonRead
    \/ \E ok \in BOOLEAN : JsonBackup(ok)
    \/ \E outcome \in WriteOutcomes : JsonWrite(outcome)
    \/ \E ok \in BOOLEAN : StreamBackup(ok)
    \/ \E ok \in BOOLEAN : StreamProcess(ok)
    \/ StreamCleanup
    \/ StreamNoChanges
    \/ \E yes \in BOOLEAN : StreamAnswer(yes)
    \/ StreamApply
    \/ SmallRead
    \/ \E ok \in BOOLEAN : SmallBackup(ok)
    \/ \E outcome \in WriteOutcomes : SmallWrite(outcome)
    \/ \E list \in UNION {[1..n -> Times] : n \in 0..MaxTime} : RestoreFind(list)
    \/ \E yes \in BOOLEAN : RestoreAnswer(yes)
    \/ RestoreSafety
    \/ RestoreCopy

FsSpec == FsInit /\ [][FsNext]_vars

\* ------------------------------------------------------------ programs

Next ==
    \/ \E ok \in BOOLEAN, k \in {"normal", "stubborn"} : Start(ok, k)
    \/ \E s \in TerminateArgs : TerminateCall(s)
    \/ Callbacks

Spec == Init /\ [][Next]_vars

\* the same program when the commands it runs may be launchers, whose
\* descendants live and end on their own
TreeNext ==
    \/ Next
    \/ \E ok \in BOOLEAN, k \in {"normal", "stubborn"} : StartLauncher(ok, k)
    \/ \E c \in Children : DescendantExits(c)

TreeSpec == Init /\ [][TreeNext]_vars

\* the same program with a second instance in the host process
TwoNext ==
    \/ Next
    \/ PeerStart
    \/ PeerChildExits
    \/ PeerExitNotification

TwoSpec == Init /\ [][TwoNext]_vars

\* the spawn of the one child of an instance, for every pair of environments
EnvNext ==
    \/ \E ok \in BOOLEAN, k \in {"normal", "stubborn"} : spawned = 0 /\ Start(ok, k)
    \/ \E c \in Children : ErrorNotification(c)

EnvSpec == EnvInit /\ [][EnvNext]_vars

\* the spawn of the one child of an instance, for every command and label
LabelSpec == LabelInit /\ [][EnvNext]_vars

\* the program when the instance has a timeout and may be verbose, and the
\* embedding program leaves it to the instance and the runtime to end the host
TimedNext ==
    \/ \E ok \in BOOLEAN, k \in {"normal", "stubborn"} : Start(ok, k)
    \/ \E s \in TerminateArgs : TerminateCall(s)
    \/ Events

TimedSpec == TimedInit /\ [][TimedNext]_vars

\* the program of an instance without a timeout, whose explicit terminate()
\* calls are noted
NotedNext ==
    \/ \E ok \in BOOLEAN, k \in {"normal", "stubborn"} : Start(ok, k)
    \/ \E s \in TerminateArgs : TerminateNoted(s)
    \/ \E s \in HandledSignals : HostSignal(s)
    \/ SigExitTimerFires
    \/ UncaughtException
    \/ ExcExitTimerFires
    \/ \E c \in Children : ForceKillTimerFires(c)
    \/ \E c \in Children, err \in BOOLEAN : TreeKillDone(c, err)
    \/ \E c \in Children, code \in ExitCodes : ChildExits(c, code)
    \/ \E c \in Children : ChildKilledBySignal(c)
    \/ \E c \in Children : ExitNotification(c)
    \/ \E c \in Children : ErrorNotification(c)
    \/ \E code \in 0..1 : HostExit(code)

\* an instance constructed without a timeout
NotedInit ==
    /\ isWindows \in BOOLEAN
    /\ timeoutOpt = FALSE
    /\ verbose = FALSE
    /\ parentEnv = EmptyEnv
    /\ optionsEnv = EmptyEnv
    /\ DefaultNames
    /\ Constructed
    /\ ToolsIdle

NotedSpec == NotedInit /\ [][NotedNext]_vars

\* the behaviours in which the embedding program uses the instance once and
\* passes terminate() only signal names the runtime accepts
SingleUseNext ==
    \/ \E ok \in BOOLEAN, k \in {"normal", "stubborn"} :
          (spawned = 0 \/ child # NoChild) /\ Start(ok, k)
    \/ \E s \in GracefulSignals : TerminateCall(s)
    \/ Callbacks

\* the command-line program: one instance, started once, whose exit code ends
\* the program; nothing else calls terminate() or process.exit
CliNext ==
    \/ \E ok \in BOOLEAN, k \in {"normal", "stubborn"} :
          spawned = 0 /\ promise[1] = "none" /\ Start(ok, k)
    \/ StartThrows
    \/ Events
    \/ \E c \in Children : CliExit(c)

CliSpec == Init /\ [][CliNext]_vars

\* the callbacks the runtime is bound to run and the effects the operating
\* system is bound to deliver; a child is never bound to exit on its own, and
\* the embedding program is never bound to call anything
Fairness ==
    /\ \A c \in Children : WF_vars(TimeoutFires(c))
    /\ \A c \in Children : WF_vars(ForceKillTimerFires(c))
    /\ \A c \in Children : WF_vars(\E err \in BOOLEAN : TreeKillDone(c, err))
    /\ \A c \in Children : WF_vars(ChildKilledBySignal(c))
    /\ \A c \in Children : WF_vars(ExitNotification(c))
    /\ \A c \in Children : WF_vars(ErrorNotification(c))
    /\ WF_vars(SigExitTimerFires)
    /\ WF_vars(ExcExitTimerFires)

FairSpec == Init /\ [][SingleUseNext]_vars /\ Fairness

TypeOK ==
    /\ child \in {NoChild} \cup Children
    /\ terminated \in BOOLEAN
    /\ \A c \in Children : kills[c] \in 0..1
    /\ termError \in {"none", "logged", "thrown"}
    /\ timeoutDiags \in 0..1
    /\ verbose \in BOOLEAN
    /\ {parentEnv, optionsEnv, childEnv} \subseteq Environments
    /\ peer.child \in {"none", "alive", "dead", "reaped"}
    /\ peer.terminated \in BOOLEAN
    /\ peer.listeners \subseteq HandledEvents
    /\ peer.kills \in 0..1

\* ---------------------------------------------------------------- claims

\* a step in which terminate() is invoked: an explicit call, a signal handler,
\* the uncaughtException handler, or the timeout timer passing its own guard
TerminateInvoked ==
    \/ \E s \in TerminateArgs : TerminateCall(s)
    \/ \E s \in HandledSignals : s \in listeners /\ HostSignal(s)
    \/ "uncaughtException" \in listeners /\ UncaughtException
    \/ \E c \in Children : ~terminated /\ child # NoChild /\ TimeoutFires(c)

\* C1: for a running child with a live pid, the terminate() invocations made
\* for it initiate exactly one kill sequence: after any step that invokes
\* terminate() while such a child is held, one kill sequence has been
\* initiated for it, and never more than one.
C1_ExactlyOneKillSequence ==
    [][(TerminateInvoked /\ child # NoChild /\ pid[child] /\ os[child] = "alive")
          => kills'[child] = 1]_vars

\* C2: a child that spawned and exited with an exit code: once its exit has
\* been observed, start()'s promise is resolved to exactly that code.
C2_ResolvesToExitCode ==
    \A c \in Children :
        (os[c] = "reaped" /\ exitCode[c] \in ExitCodes)
            => (promise[c] = "resolved" /\ result[c] = exitCode[c])

\* C2 witness: a child nobody tried to kill exited with code 2 and start() resolved to 2
C2_Witness ==
    \E c \in Children :
        /\ os[c] = "reaped" /\ kills[c] = 0 /\ exitCode[c] = 2
        /\ promise[c] = "resolved" /\ result[c] = 2

\* C3: start() spawns at most once per instance: no start() call after the
\* first spawns a further child, whether the first child runs or has exited.
C3_StartSpawnsAtMostOnce == spawned <= 1

\* C4: start()'s promise is resolved only by the child's exit notification: in
\* every state where the child's exit has not been observed it is unresolved.
C4_ResolvedOnlyByExit ==
    \A c \in Children : os[c] # "reaped" => promise[c] # "resolved"

\* C4 witness: terminate() was called and has returned, the timeout timer has
\* fired, the child's exit is not observed yet and the promise is pending
C4_Witness ==
    \E c \in Children :
        /\ timeoutOpt /\ c \notin timeoutTimers
        /\ terminated /\ kills[c] = 1
        /\ os[c] \in {"alive", "dead"}
        /\ promise[c] = "pending"

\* C5: when the timeout timer expires while the child is running and no kill
\* sequence has been requested for it, the timer initiates one.
C5_TimeoutInitiatesKill ==
    [][\A c \in Children :
          (TimeoutFires(c) /\ child = c /\ os[c] = "alive" /\ kills[c] = 0)
              => kills'[c] = 1]_vars

\* C6: with a timeout configured, a child that does not exit on its own is
\* eventually reported: start()'s promise resolves and killed is true, as long
\* as the host process keeps running, whatever terminate() calls race with
\* the timer.
C6_TimeoutEventuallyResolves ==
    \A c \in Children :
        (timeoutOpt /\ os[c] = "alive")
            ~> ((promise[c] = "resolved" /\ Killed) \/ host # "running")

\* C7: a timeout timer firing after the exit of its child has been observed
\* changes nothing but the timer itself: no kill, no diagnostic, no state.
C7_LateTimeoutIsNoOp ==
    [][\A c \in Children :
          (TimeoutFires(c) /\ os[c] = "reaped")
              => UNCHANGED <<child, terminated, cleanupHandlers, listeners, spawned,
                             pid, killed, os, kind, exitCode, exitSignal, sigPending,
                             promise, result, forceKillTimers, treeKills,
                             sigExitTimers, excExitTimers, host, hostCode, kills, termError,
                             timeoutDiags>>]_vars

\* C7 witness: the timer of a child fired after that child's exit was observed
C7_Witness ==
    \E c \in Children : c \in lateTimeouts /\ os[c] = "reaped" /\ c \notin timeoutTimers

\* C8: when the command cannot be spawned, start()'s promise eventually
\* settles with a non-zero outcome (as long as the host process keeps running).
C8_SpawnFailureSettles ==
    \A c \in Children :
        (os[c] = "failed")
            ~> ((promise[c] = "resolved" /\ result[c] # 0) \/ host # "running")

\* C9: when the child was ended by a signal (the exit notification carries no
\* code), start() resolves to a non-zero status.
C9_SignalExitIsNonZero ==
    \A c \in Children :
        (promise[c] = "resolved" /\ exitCode[c] = NullCode) => result[c] # 0

\* C10: while the child is running, a signal the instance handles, delivered
\* to the host, has a kill sequence initiated for the child by the time the
\* handler returns.
C10_SignalInitiatesKill ==
    [][\A s \in HandledSignals :
          (HostSignal(s) /\ child # NoChild /\ os[child] = "alive")
              => kills'[child] >= 1]_vars

\* C11: on the signal path, when the 3 s timer of the terminate() call made for
\* c fires and c has not exited, an unconditional SIGKILL is sent to c.
C11_ForceKillAfterGrace ==
    [][\A c \in Children :
          (ForceKillTimerFires(c) /\ ~isWindows /\ child = c /\ os[c] = "alive")
              => sigPending'[c] = "SIGKILL"]_vars

\* C12: once start() has resolved for a child that terminate() was called on,
\* neither the child nor a descendant it had spawned is still running.
C12_TreeGoneOnceResolved ==
    \A c \in Children :
        (promise[c] = "resolved" /\ kills[c] >= 1) => ~desc[c]

\* the instance has observed its child's exit and holds no child
Exited == child = NoChild /\ spawned > 0

\* a signal, an uncaught exception or a process exit reaches the host process
HostEvent ==
    \/ \E s \in HandledSignals : HostSignal(s)
    \/ UncaughtException
    \/ \E code \in 0..1 : HostExit(code)

C13_SignalSafetyNetExits ==
    [][(SigExitTimerFires /\ child # NoChild /\ kills[child] >= 1
            /\ os[child] = "alive") => host' = "exited"]_vars

\* C15: whenever a start() call has ended (the child is gone or could not be
\* spawned) the instance's cleanup runs: its handlers are eventually all
\* deregistered unless the host ends first.
C15_CleanupOnEveryPath ==
    \A c \in Children :
        (os[c] \in {"dead", "failed"}) ~> (listeners = {} \/ host # "running")

\* C16: in the command-line program, once the uncaughtException handler has
\* run for a child that was spawned (its 1 s exit timer is pending),
\* termination of the child was requested and the host exits with a
\* non-zero status.
C16_ExceptionExitsWithFailure ==
    [][(host = "running" /\ excExitTimers > 0 /\ pid[1] /\ host' = "exited")
          => (terminated /\ hostCode' # 0)]_vars

\* C17: when the host process exits (its 'exit' hook runs) while the child held
\* by the instance is running and no termination was requested for it, the
\* exit hook's terminate() initiates a kill sequence for that child.
C17_ExitHookInitiatesKill ==
    [][(host = "running" /\ host' = "exited" /\ child # NoChild
            /\ os[child] = "alive" /\ kills[child] = 0)
          => kills'[child] = 1]_vars

\* C18: once terminate() has initiated a kill sequence for a running child,
\* the exit is eventually observed and start() resolves with killed true
\* (unless the host ends first); a forced kill always stops the child.
C18_KillSequenceCompletes ==
    \A c \in Children :
        (kills[c] >= 1 /\ os[c] = "alive")
            ~> ((promise[c] = "resolved" /\ Killed) \/ host # "running")

\* C19: no error raised inside terminate() reaches its caller, whatever the
\* state it is called in and also when the kill call raises.
C19_TerminateNeverThrows == termError # "thrown"

\* the kill call of terminate() raised, the error was logged, and the instance
\* still observed the exit of that child and resolved start()
C19_Witness ==
    /\ termError = "logged"
    /\ kills[1] = 1
    /\ ~killed[1]
    /\ os[1] = "reaped"
    /\ promise[1] = "resolved"

\* the lifecycle state of the instance, as its position in the order
\* NotStarted, Running, Terminating, Exited
LifecycleRank ==
    IF child # NoChild THEN (IF terminated THEN 2 ELSE 1)
    ELSE IF spawned = 0 THEN 0 ELSE 3

\* C20: the lifecycle state never moves backward; in particular an instance
\* that has reached Exited stays there and never holds a child again.
C20_LifecycleMonotonic == [][LifecycleRank' >= LifecycleRank]_vars

\* C21: the promise of a start() call, once resolved, stays resolved with the
\* same value, and that value is the one of the observed exit of its child.
C21_OutcomeRecordedOnce ==
    [][\A c \in Children :
          /\ promise[c] = "resolved"
                => (promise'[c] = "resolved" /\ result'[c] = result[c])
          /\ (promise[c] = "pending" /\ promise'[c] = "resolved")
                => (ExitNotification(c) /\ result'[c] = CodeOrZero(exitCode[c]))]_vars

\* the promise of child 1 resolved to a non-zero code after a terminate() and
\* its force-kill timer; a second child then ended with another outcome
C21_Witness ==
    /\ promise[1] = "resolved" /\ result[1] = 2
    /\ kills[1] = 1 /\ ~isWindows /\ forceKillTimers = {}
    /\ promise[2] = "resolved" /\ result[2] = 0

\* C22: with two instances in the host, a handler calls the terminate() of
\* the instance that registered it and of no other; the cleanup at one
\* instance's exit leaves the other instance and its handlers as they were;
\* and a signal delivered after one instance's exit still has a kill sequence
\* initiated for the running child of the other.
C22_HandlersScopedToInstance ==
    [][/\ PeerExitNotification
             => (listeners' = listeners /\ cleanupHandlers' = cleanupHandlers
                    /\ UNCHANGED termVars)
       /\ \A c \in Children : ExitNotification(c) => peer' = peer
       /\ \A s \in HandledSignals :
             HostSignal(s) =>
                /\ s \notin peer.listeners => peer' = peer
                /\ s \notin listeners => UNCHANGED termVars
                /\ (Exited /\ peer.child = "alive" /\ peer.kills = 0)
                       => (peer'.kills = 1 /\ host' = "running")
                /\ (peer.child = "reaped" /\ child # NoChild /\ os[child] = "alive"
                        /\ kills[child] = 0)
                       => (kills'[child] = 1 /\ host' = "running")]_vars

\* C23: a start() call made while the instance holds a child is rejected and
\* changes nothing: no field, handler, timer, promise or process; and while
\* a child is held no step spawns another process.
C23_RejectedStartHasNoEffect ==
    [][/\ (child # NoChild /\ \E ok \in BOOLEAN, k \in {"normal", "stubborn"} : Start(ok, k))
             => UNCHANGED vars
       /\ child # NoChild => spawned' = spawned]_vars

\* the state of the double-start test at its second start(): the first child
\* runs, termination was requested, its promise is pending, its timers are armed
C23_Witness ==
    /\ child = 1 /\ os[1] = "alive" /\ terminated
    /\ promise[1] = "pending"
    /\ 1 \in timeoutTimers
    /\ listeners = HandledEvents
    /\ spawned = 1

\* C24: in every state after a promise returned by start() has resolved,
\* killed is true, the child handle is released and pid is undefined.
C24_ResolvedMeansReleased ==
    \A c \in Children :
        promise[c] = "resolved" => (Killed /\ child = NoChild /\ Pid = NoChild)

\* C25: once start() has been attempted with a command that cannot be
\* spawned and the spawn error has been reported, killed is true.
C25_KilledAfterSpawnFailure ==
    (child # NoChild /\ os[child] = "errored") => Killed

\* C26: pid is undefined before the first start(); and every child that was
\* spawned successfully and whose exit has not been observed is the child
\* the instance holds, and pid returns its identifier.
C26_PidWhileHeld ==
    /\ spawned = 0 => Pid = NoChild
    /\ \A c \in Children :
          (pid[c] /\ os[c] \in {"alive", "dead"}) => (child = c /\ Pid = c /\ Pid > 0)

\* termination was requested, the child still runs, pid still names it
C26_Witness ==
    /\ os[1] = "alive" /\ terminated /\ kills[1] = 1
    /\ Pid = 1

\* C27: killed is true only when the child's exit has been observed; while
\* the child held by the instance is alive it is false, also after
\* terminate() has been requested.
C27_KilledMeansExitObserved ==
    /\ Killed => Exited
    /\ (child # NoChild /\ os[child] = "alive") => ~Killed

\* C28: the command-line program ends itself only once its start() call has
\* settled, with the value the call resolved to, or with 1 when it was rejected.
C28_CliPropagatesExitCode ==
    [][\A c \in Children :
          CliExit(c) =>
             /\ promise[c] \in {"resolved", "rejected"}
             /\ promise[c] = "resolved" => hostCode' = result[c]
             /\ promise[c] = "rejected" => hostCode' = 1
             /\ host' = "exited"]_vars

\* the program has ended with the non-zero code of its child
C28_Witness ==
    /\ host = "exited" /\ hostCode = 2
    /\ promise[1] = "resolved" /\ result[1] = 2
    /\ excExitTimers = 0 /\ sigExitTimers = 0

\* C29: the timeout diagnostic is written in exactly the steps in which the
\* timeout timer initiates the termination (its guard passes), verbose or not;
\* no signal handler, explicit terminate() or late timer writes it.
C29_TimeoutDiagnostic ==
    [][/\ \A c \in Children :
             (TimeoutFires(c) /\ ~terminated /\ child # NoChild)
                 => timeoutDiags' = timeoutDiags + 1
       /\ timeoutDiags' # timeoutDiags
             => \E c \in Children :
                   TimeoutFires(c) /\ ~terminated /\ child # NoChild]_vars

\* the timer initiated the kill of a non-verbose instance and wrote the diagnostic
C29_Witness ==
    /\ ~verbose
    /\ timeoutDiags = 1
    /\ kills[1] = 1
    /\ timeoutTimers = {}

\* C30: the environment passed to a spawned child has, for every key, the
\* value options.env gives it when options.env has the key, and the value
\* the host inherited otherwise.
C30_EnvOverridesInherited ==
    spawned > 0 =>
        \A k \in EnvKeys :
            childEnv[k] = IF optionsEnv[k] # Absent THEN optionsEnv[k] ELSE parentEnv[k]

\* one key is overridden with another value, one is inherited, and the child
\* was spawned
C30_Witness ==
    /\ spawned = 1
    /\ parentEnv["PATH"] = "u" /\ optionsEnv["PATH"] = "v" /\ childEnv["PATH"] = "v"
    /\ parentEnv["HOME"] = "u" /\ optionsEnv["HOME"] = Absent /\ childEnv["HOME"] = "u"

\* b is the part of p after its last separator, trailing separators aside
IsBasename(b, p) ==
    \/ b = <<>> /\ \A i \in 1..Len(p) : p[i] \in Seps
    \/ \E i, j \in 1..Len(p) :
          /\ i <= j
          /\ b = SubSeq(p, i, j)
          /\ \A k \in i..j : p[k] \notin Seps
          /\ \A k \in (j + 1)..Len(p) : p[k] \in Seps
          /\ (i = 1 \/ p[i - 1] \in Seps)

\* C31 as stated: the label is options.label whenever one is provided, and
\* otherwise the basename of the command; it never changes after construction
C31_LabelWhenProvided ==
    /\ [](/\ labelOpt.defined => label = labelOpt.text
          /\ ~labelOpt.defined => IsBasename(label, command))
    /\ [][label' = label]_vars

\* C31 amended: the label is options.label when that is a non-empty string,
\* and otherwise (left out or empty) the basename of the command; it never
\* changes after construction
C31_LabelWhenNonEmpty ==
    /\ [](/\ (labelOpt.defined /\ labelOpt.text # <<>>) => label = labelOpt.text
          /\ ~(labelOpt.defined /\ labelOpt.text # <<>>)
                => IsBasename(label, command))
    /\ [][label' = label]_vars

\* an instance given the empty label and '/usr/bin/node', labelled 'node',
\* has spawned its child
C31_Witness ==
    /\ labelOpt.defined /\ labelOpt.text = <<>>
    /\ command = UsrBinNode
    /\ label = <<"n", "o", "d", "e">>
    /\ child # NoChild

\* the command line of an entry launches reliable-mcp: directly, through npx,
\* or through cmd /c
RECURSIVE Launches(_)
Launches(line) ==
    IF line = <<>> THEN FALSE
    ELSE IF line[1] = "reliable-mcp" THEN TRUE
    ELSE IF line[1] \in {"cmd", "cmd.exe"} /\ Has(Tail(line), "/c")
    THEN Launches(Slice(Tail(line), IndexOf(Tail(line), "/c")))
    ELSE IF line[1] = "npx" THEN Launches(Without(Tail(line), "-y"))
    ELSE FALSE

AlreadyWrapped(s) == Launches(<<s.command>> \o Args(s))

\* C32: a migration run leaves an entry that is already wrapped with
\* reliable-mcp unchanged, and a run over the output of an earlier run reports
\* no change and returns the same command and arguments
C32_NeverDoubleWraps ==
    [][(passes' = passes + 1 /\ (AlreadyWrapped(server) \/ passes >= 1))
         => (~changed' /\ server'.command = server.command
                       /\ Args(server') = Args(server))]_vars


\* C33: whenever a step of a migration replaces the content of the
\* configuration file, the backup this run made exists and holds the content
\* the file had before the migration
C33_BackupPrecedesWrite ==
    [][(/\ job.cmd \in {"migrate", "migrate-json", "migrate-streaming"}
        /\ Exists(Config) /\ Config \in DOMAIN fs' /\ fs'[Config] # fs[Config])
         => (/\ Exists(Backup(job.backupTs))
             /\ Config \in DOMAIN fs0
             /\ fs[Backup(job.backupTs)] = fs0[Config])]_vars

\* a streaming migration has replaced the configuration, and its backup
\* holds what the file held before
C33_Witness ==
    /\ Running("migrate-streaming", "done")
    /\ job.large
    /\ Exists(Config) /\ Config \in DOMAIN fs0
    /\ fs[Config] # fs0[Config]
    /\ Exists(Backup(job.backupTs))
    /\ fs[Backup(job.backupTs)] = fs0[Config]

\* C34: a migrate or restore command run with the dry-run option has, once
\* it completes, left every file as it found it and added none
C34_DryRunLeavesFiles ==
    (job.cmd # "none" /\ job.pc = "done" /\ job.dryRun) => fs = fs0

\* a dry run of the in-memory migration that found changes to make has ended
C34_Witness ==
    /\ Running("migrate", "done")
    /\ job.dryRun
    /\ job.changes
    /\ fs = fs0

\* C35: the step of a restore that replaces the configuration file gives it
\* the content of the backup with the greatest timestamp, and if the file
\* existed a safety backup holding its content is there by then
C35_RestoresNewest ==
    [][(Running("restore", "copy") /\ job'.pc = "done")
         => (\E t \in Times :
               /\ Exists(Backup(t))
               /\ \A u \in Times : Exists(Backup(u)) => u <= t
               /\ fs'[Config] = fs[Backup(t)]
               /\ Exists(Config) =>
                     \E u \in Times : /\ Exists(Safety(u))
                                       /\ fs[Safety(u)] = fs[Config])]_vars

\* a restore has replaced an existing configuration by the newer of two
\* backups that differ, and the safety backup holds what it replaced
C35_Witness ==
    /\ Running("restore", "done")
    /\ Exists(Backup(1)) /\ Exists(Backup(2)) /\ fs[Backup(1)] # fs[Backup(2)]
    /\ Config \in DOMAIN fs0 /\ fs0[Config] # fs[Backup(2)]
    /\ fs[Config] = fs[Backup(2)]
    /\ \E u \in Times : Exists(Safety(u)) /\ fs[Safety(u)] = fs0[Config]

\* C36: while the instance holds no child with a pid, no step (so no
\* terminate() call, from whichever caller) claims the latch or initiates a
\* kill sequence, and the first noted terminate() call made then changes
\* nothing at all
C36_NoPidNoLatch ==
    /\ [][(child = NoChild \/ ~pid[child])
            => (terminated' = terminated /\ kills' = kills)]_vars
    /\ [][(~declined /\ declined')
            => UNCHANGED <<instVars, termVars, childVars, promVars, timerVars, hostVars,
                           peer>>]_vars

\* terminate() was called before start() and returned at its guard; the child
\* started afterwards has had its kill sequence initiated by a later call
C36_Witness ==
    /\ declined
    /\ spawned = 1 /\ child = 1 /\ pid[1]
    /\ terminated /\ kills[1] = 1

\* C37: while a child with a live pid is running and no kill sequence has
\* been initiated for it, terminate() does not return at its guard, and every
\* step that invokes terminate() (explicit call, signal or exception handler,
\* timeout timer) initiates the kill sequence of that child
C37_NeverSilentForLiveChild ==
    /\ []((child # NoChild /\ pid[child] /\ os[child] = "alive" /\ kills[child] = 0)
            => ~Declines)
    /\ [][(/\ TerminateInvoked
           /\ child # NoChild /\ pid[child] /\ os[child] = "alive" /\ kills[child] = 0)
            => (terminated' /\ kills'[child] = 1)]_vars

\* C38: a step in which the force-kill of the terminate() call made for a
\* child c is delivered or lapses (its 3 s timer fires, its tree-kill ends)
\* sends no signal to any other child and marks no other child killed, and
\* sends nothing once c is no longer alive
C38_ForceKillOwnChild ==
    [][\A c \in Children :
          ((c \in forceKillTimers \ forceKillTimers') \/ (c \in treeKills \ treeKills'))
            => /\ \A d \in Children \ {c} :
                     killed'[d] = killed[d] /\ sigPending'[d] = sigPending[d]
               /\ os[c] # "alive" => sigPending' = sigPending]_vars
====
